---- MODULE Spec2Model ----
(***************************************************************************)
(* Model of slogemail.EmailHandler (handler.go) and its default Mailer.    *)
(*                                                                         *)
(* Text (rendered log lines, email bodies, output-stream writes) is a      *)
(* sequence of tokens: the punctuation "{" "}" ":" "," "=", the white      *)
(* space "sp" (one space) and "nl" (one newline), the literal "MY:" of the *)
(* output format string, and string literals (keys, messages, level        *)
(* names).                                                                 *)
(***************************************************************************)
EXTENDS Integers, Sequences, FiniteSets, TLC

(***************************************************************************)
(* Bounds of the model.                                                    *)
(***************************************************************************)
\* total number of calls (Handle, WithAttrs, WithGroup) made on the handler
MaxOps == 2

\* the goroutines that share the handler
Goroutines == {"g1", "g2"}
GoroutineRank == [g \in Goroutines |-> IF g = "g1" THEN 1 ELSE 2]

(***************************************************************************)
(* slog levels (log/slog: Debug -4, Info 0, Warn 4, Error 8).              *)
(***************************************************************************)
LevelDebug == -4
LevelInfo == 0
LevelWarn == 4
LevelError == 8

\* the levels of the records logged, and the thresholds configured
RecordLevels == {LevelWarn + 2, LevelError}
EmailLevels == {LevelWarn + 2, LevelError}
\* the minimum level of the base handler options (opts.Level; Info is the
\* one slog takes when none is given), and the levels Enabled is asked about
HandlerLevels == {LevelInfo}
EnabledLevels == {LevelDebug, LevelWarn + 2}

\* fmt.Sprintf("%s%+d", base, val) for the offsets that occur
Sprintf(base, val) ==
    CASE base = "DEBUG" /\ val = 2 -> "DEBUG+2"
      [] base = "INFO" /\ val = 2 -> "INFO+2"
      [] base = "WARN" /\ val = 2 -> "WARN+2"
      [] base = "ERROR" /\ val = 2 -> "ERROR+2"

\* slog.Level.String(), used for the default subject (handler.go:142)
LevelString(l) ==
    LET str(base, val) == IF val = 0 THEN base ELSE Sprintf(base, val)
    IN  CASE l < LevelInfo -> str("DEBUG", l - LevelDebug)
          [] l >= LevelInfo /\ l < LevelWarn -> str("INFO", l - LevelInfo)
          [] l >= LevelWarn /\ l < LevelError -> str("WARN", l - LevelWarn)
          [] OTHER -> str("ERROR", l - LevelError)

(***************************************************************************)
(* Tokens.                                                                 *)
(***************************************************************************)
Space == {"sp", "nl"}
Messages == <<"m1", "m2", "m3", "m4", "m5">>
AttrNames == {"a1"}
GroupNames == {"g"}
StringLiterals ==
    {"level", "msg", "DEBUG", "INFO", "WARN", "ERROR",
     "DEBUG+2", "INFO+2", "WARN+2", "ERROR+2", "v"}
      \cup {Messages[i] : i \in DOMAIN Messages} \cup AttrNames \cup GroupNames

\* n copies of token t
RECURSIVE Repeat(_, _)
Repeat(t, n) == IF n <= 0 THEN <<>> ELSE <<t>> \o Repeat(t, n - 1)

(***************************************************************************)
(* The base handler: slog.NewJSONHandler(buf, opts) or                     *)
(* slog.NewTextHandler(buf, opts), bound by WithAttrs / WithGroup.         *)
(* binds is the sequence of bindings made so far, each                     *)
(*   [kind |-> "attr", name |-> a]  or  [kind |-> "group", name |-> g];     *)
(* level is the minimum level of its options.                              *)
(***************************************************************************)
NewJSONHandler(o) == [json |-> TRUE, binds |-> <<>>, level |-> o.Level]
NewTextHandler(o) == [json |-> FALSE, binds |-> <<>>, level |-> o.Level]

\* commonHandler.enabled: the level is at or above the minimum level
BaseEnabled(bh, level) == level >= bh.level

BaseWithAttrs(bh, a) ==
    [bh EXCEPT !.binds = Append(@, [kind |-> "attr", name |-> a])]
BaseWithGroup(bh, g) ==
    [bh EXCEPT !.binds = Append(@, [kind |-> "group", name |-> g])]

\* a group is rendered only when an attribute is bound after it
HasAttrFrom(binds, i) ==
    \E j \in i..Len(binds) : binds[j].kind = "attr"

\* the bound attributes in JSON: , "a":"v"  and  , "g":{"a":"v" ...
RECURSIVE JSONBinds(_, _, _)
JSONBinds(binds, i, first) ==
    IF i > Len(binds) THEN <<>>
    ELSE LET b == binds[i]
             sep == IF first THEN <<>> ELSE <<",">>
         IN  IF b.kind = "attr"
             THEN sep \o <<b.name, ":", "v">> \o JSONBinds(binds, i + 1, FALSE)
             ELSE IF HasAttrFrom(binds, i + 1)
                  THEN sep \o <<b.name, ":", "{">> \o JSONBinds(binds, i + 1, TRUE)
                  ELSE <<>>

\* the groups that were opened, closed at the end of the line
OpenGroups(binds) ==
    Cardinality({i \in 1..Len(binds) :
                    binds[i].kind = "group" /\ HasAttrFrom(binds, i + 1)})

\* the bound attributes in text: g.a=v
RECURSIVE TextBinds(_, _, _)
TextBinds(binds, i, prefix) ==
    IF i > Len(binds) THEN <<>>
    ELSE LET b == binds[i]
         IN  IF b.kind = "attr"
             THEN <<"sp">> \o prefix \o <<b.name, "=", "v">>
                      \o TextBinds(binds, i + 1, prefix)
             ELSE TextBinds(binds, i + 1, prefix \o <<b.name, ".">>)

\* the line the base handler renders for record r:
\* r.render = "ok" is a well-formed line, "malformed" a JSON line cut short
RenderText(bh, r) ==
    IF bh.json
    THEN <<"{", "level", ":", LevelString(r.level), ",", "msg", ":", r.msg>>
            \o JSONBinds(bh.binds, 1, FALSE)
            \o (IF r.render = "malformed" THEN <<>>
                ELSE Repeat("}", OpenGroups(bh.binds) + 1))
            \o <<"nl">>
    ELSE <<"level", "=", LevelString(r.level), "sp", "msg", "=", r.msg>>
            \o TextBinds(bh.binds, 1, <<>>)
            \o <<"nl">>

(***************************************************************************)
(* encoding/json.Indent(&dst, src, "", "    ") as prettifyJSON calls it:   *)
(* the scanner of encoding/json stepped over the tokens of src.            *)
(***************************************************************************)
IndentWidth == 4

NewScanner == [step |-> "beginValue", parseState |-> <<>>, endTop |-> FALSE]

ScanErr(s) == [scan |-> s, v |-> "scanError"]

RECURSIVE ScanStep(_, _)
\* scanner.step(s, c): the new scanner and the scan code
ScanStep(s, c) ==
    LET n == Len(s.parseState)
        pop == LET ps == SubSeq(s.parseState, 1, n - 1)
               IN  IF ps = <<>>
                   THEN [s EXCEPT !.parseState = ps, !.step = "endTop",
                                  !.endTop = TRUE]
                   ELSE [s EXCEPT !.parseState = ps, !.step = "endValue"]
        endValue ==
            IF n = 0
            THEN \* the top-level value is complete: stateEndTop(s, c)
                 LET t == [s EXCEPT !.step = "endTop", !.endTop = TRUE]
                 IN  IF c \in Space THEN [scan |-> t, v |-> "scanEnd"]
                     ELSE ScanErr(t)
            ELSE IF c \in Space
            THEN [scan |-> [s EXCEPT !.step = "endValue"], v |-> "scanSkipSpace"]
            ELSE IF s.parseState[n] = "parseObjectKey"
            THEN IF c = ":"
                 THEN [scan |-> [s EXCEPT !.parseState[n] = "parseObjectValue",
                                          !.step = "beginValue"],
                       v |-> "scanObjectKey"]
                 ELSE ScanErr(s)
            ELSE IF c = ","
                 THEN [scan |-> [s EXCEPT !.parseState[n] = "parseObjectKey",
                                          !.step = "beginString"],
                       v |-> "scanObjectValue"]
                 ELSE IF c = "}"
                 THEN [scan |-> pop, v |-> "scanEndObject"]
                 ELSE ScanErr(s)
    IN  CASE s.step = "beginValue" ->
               IF c \in Space THEN [scan |-> s, v |-> "scanSkipSpace"]
               ELSE IF c = "{"
               THEN [scan |-> [s EXCEPT !.step = "beginStringOrEmpty",
                                        !.parseState = Append(@, "parseObjectKey")],
                     v |-> "scanBeginObject"]
               ELSE IF c \in StringLiterals
               THEN [scan |-> [s EXCEPT !.step = "endValue"],
                     v |-> "scanBeginLiteral"]
               ELSE ScanErr(s)
          [] s.step = "beginStringOrEmpty" ->
               IF c \in Space THEN [scan |-> s, v |-> "scanSkipSpace"]
               ELSE IF c = "}"
               THEN ScanStep([s EXCEPT !.parseState[n] = "parseObjectValue",
                                       !.step = "endValue"], c)
               ELSE ScanStep([s EXCEPT !.step = "beginString"], c)
          [] s.step = "beginString" ->
               IF c \in Space THEN [scan |-> s, v |-> "scanSkipSpace"]
               ELSE IF c \in StringLiterals
               THEN [scan |-> [s EXCEPT !.step = "endValue"],
                     v |-> "scanBeginLiteral"]
               ELSE ScanErr(s)
          [] s.step = "endValue" -> endValue
          [] OTHER ->  \* endTop
               IF c \in Space THEN [scan |-> s, v |-> "scanEnd"]
               ELSE ScanErr(s)

\* scanner.eof(): TRUE when the input ended inside a value
ScanEOFError(s) ==
    IF s.endTop THEN FALSE
    ELSE LET r == ScanStep(s, "sp")
         IN  r.v = "scanError" \/ ~r.scan.endTop

appendNewline(dst, depth) == dst \o <<"nl">> \o Repeat("sp", IndentWidth * depth)

RECURSIVE appendIndent(_, _, _, _, _, _)
\* the loop of appendIndent over src[i..]: [err, out]
appendIndent(src, i, scan, needIndent, depth, dst) ==
    IF i > Len(src)
    THEN IF ScanEOFError(scan) THEN [err |-> TRUE, out |-> <<>>]
         ELSE [err |-> FALSE, out |-> dst]
    ELSE
      LET c == src[i]
          r == ScanStep(scan, c)
          v == r.v
          indentNow == needIndent /\ v # "scanEndObject"
          depth1 == IF indentNow THEN depth + 1 ELSE depth
          dst1 == IF indentNow THEN appendNewline(dst, depth1) ELSE dst
          need1 == IF indentNow THEN FALSE ELSE needIndent
      IN  CASE v = "scanSkipSpace" ->
                 appendIndent(src, i + 1, r.scan, needIndent, depth, dst)
            [] v = "scanError" -> [err |-> TRUE, out |-> <<>>]
            [] OTHER ->
                 CASE c = "{" ->
                        appendIndent(src, i + 1, r.scan, TRUE, depth1,
                                     Append(dst1, c))
                   [] c = "," ->
                        appendIndent(src, i + 1, r.scan, need1, depth1,
                                     appendNewline(Append(dst1, c), depth1))
                   [] c = ":" ->
                        appendIndent(src, i + 1, r.scan, need1, depth1,
                                     dst1 \o <<c, "sp">>)
                   [] c = "}" ->
                        IF need1
                        THEN appendIndent(src, i + 1, r.scan, FALSE, depth1,
                                          Append(dst1, c))
                        ELSE appendIndent(src, i + 1, r.scan, FALSE, depth1 - 1,
                                 Append(appendNewline(dst1, depth1 - 1), c))
                   [] OTHER ->
                        appendIndent(src, i + 1, r.scan, need1, depth1,
                                     Append(dst1, c))

\* a prettifyJSON that falls back to the raw text when json.Indent fails
prettifyJSONFallingBack(str) ==
    LET r == appendIndent(str, 1, NewScanner, FALSE, 0, <<>>)
    IN  IF r.err THEN [err |-> FALSE, out |-> str] ELSE r

\* prettifyJSON(str): [err, out]; out is "" on error
prettifyJSON(str) == appendIndent(str, 1, NewScanner, FALSE, 0, <<>>)

(***************************************************************************)
(* The default mailer (Mailer, NewMailer, SendPlaintextMessage).           *)
(***************************************************************************)
ValidAddrs == {"from@example.com", "one@example.com", "two@example.com"}

\* NewMailer(host, port, username, password): mail.NewClient rejects the
\* connection parameters or yields a client
NewMailer(conn) ==
    IF conn = "valid" THEN [mailer |-> "client", err |-> "nil"]
    ELSE [mailer |-> "nil", err |-> "clientErr"]

\* SendPlaintextMessage up to the dial: the error of msg.From / msg.To, or
\* "dial" when the message goes to DialAndSendWithContext
SendPlaintextMessage(from, to) ==
    IF from \notin ValidAddrs THEN "fromErr"
    ELSE IF \E i \in DOMAIN to : to[i] \notin ValidAddrs THEN "toErr"
    ELSE "dial"

\* what DialAndSendWithContext may return
DialResults == {"nil", "dialErr"}
\* what a user's SendEmail may return
CustomResults == {"nil", "sendErr"}

(***************************************************************************)
(* User callbacks GetSubject and GetBody: functions of the record and the  *)
(* rendered output.                                                        *)
(***************************************************************************)
UserGetSubject(r, logOutput) == r.msg
UserGetBody(r, logOutput) == <<"msg", "=", r.msg>>

(***************************************************************************)
(* Construction.                                                           *)
(***************************************************************************)
EmailOptsSet ==
    {o \in
    [FromAddr : {"from@example.com"},
     ToAddrs : {<<"one@example.com", "two@example.com">>},
     JSON : BOOLEAN,
     Level : EmailLevels,
     SendEmail : {"nil", "custom"},
     GetSubject : {"nil", "custom"},
     GetBody : {"nil", "custom"},
     ConnectionInfo : {"valid", "invalid"}] :
        \* the connection parameters are not read when SendEmail is given
        o.SendEmail = "custom" => o.ConnectionInfo = "valid"}

\* the slog.HandlerOptions given to NewHandler
HandlerOptsSet == [Level : HandlerLevels]

\* NewHandler(w, opts, emailOpts): the handler returned and the error
NewHandler(o, emailOpts) ==
    LET handler ==
            [baseHandler |-> IF emailOpts.JSON THEN NewJSONHandler(o)
                             ELSE NewTextHandler(o),
             buf |-> <<>>,
             emailLevel |-> emailOpts.Level,
             fromAddr |-> emailOpts.FromAddr,
             toAddrs |-> emailOpts.ToAddrs,
             getSubject |-> emailOpts.GetSubject,
             getBody |-> emailOpts.GetBody,
             json |-> emailOpts.JSON,
             sendEmail |-> "nil",
             defaultMailer |-> "nil"]
        m == NewMailer(emailOpts.ConnectionInfo)
    IN  IF emailOpts.SendEmail # "nil"
        THEN [handler |-> [handler EXCEPT !.sendEmail = emailOpts.SendEmail],
              err |-> "nil"]
        ELSE IF m.err # "nil"
        THEN [handler |-> handler, err |-> m.err]
        ELSE [handler |-> [handler EXCEPT !.defaultMailer = m.mailer,
                                          !.sendEmail = "sendEmailDefault"],
              err |-> "nil"]

(***************************************************************************)
(* State.                                                                  *)
(***************************************************************************)
VARIABLES
    opts,           \* the slog.HandlerOptions NewHandler was called with
    emailOpts,      \* the EmailHandlerOpts NewHandler was called with
    newErr,         \* the error NewHandler returned
    baseHandler, buf, mu, emailLevel, sendEmail, getSubject, getBody,
    fromAddr, toAddrs, json, defaultMailer,   \* the fields of EmailHandler
    out,            \* the Write calls made on h.out: [call, data, err]
    sent,           \* the calls of h.sendEmail:
                    \*   [call, fn, from, to, subject, body, dialed, result]
    calls,          \* the Handle calls: [g, rec, rendered, nbinds, ret]
    arg,            \* per goroutine: the binding its WithAttrs / WithGroup
                    \*   call is about to make
    rebinds,        \* the WithAttrs / WithGroup calls that returned:
                    \*   [kind, name, ret]
    enabled,        \* the Enabled calls: [g, level, ret, mu, rebinding]
    lockOrder,      \* the Handle calls in the order they took h.mu
    nops,           \* the number of calls made on the handler so far
    pc, cur,        \* per goroutine: where it is, and in which Handle call
    text,           \* per goroutine: the local text of Handle
    crashed         \* an unrecovered panic ended the program

config == <<opts, emailOpts, newErr, emailLevel, sendEmail, getSubject, getBody,
            fromAddr, toAddrs, json, defaultMailer>>
\* what Handle leaves alone
aside == <<arg, rebinds, enabled>>
vars == <<config, baseHandler, buf, mu, out, sent, calls, lockOrder, nops,
          pc, cur, text, crashed, aside>>

Unlocked == "free"
Renders == {"ok", "fail", "malformed"}

NoBinding == [kind |-> "none", name |-> ""]

Init ==
    /\ opts \in HandlerOptsSet
    /\ emailOpts \in EmailOptsSet
    /\ arg = [g \in Goroutines |-> NoBinding]
    /\ rebinds = <<>>
    /\ enabled = <<>>
    /\ LET n == NewHandler(opts, emailOpts)
       IN  /\ newErr = n.err
           /\ baseHandler = n.handler.baseHandler
           /\ buf = n.handler.buf
           /\ emailLevel = n.handler.emailLevel
           /\ sendEmail = n.handler.sendEmail
           /\ getSubject = n.handler.getSubject
           /\ getBody = n.handler.getBody
           /\ fromAddr = n.handler.fromAddr
           /\ toAddrs = n.handler.toAddrs
           /\ json = n.handler.json
           /\ defaultMailer = n.handler.defaultMailer
    /\ mu = Unlocked
    /\ out = <<>>
    /\ sent = <<>>
    /\ calls = <<>>
    /\ lockOrder = <<>>
    /\ nops = 0
    /\ pc = [g \in Goroutines |-> "idle"]
    /\ cur = [g \in Goroutines |-> 0]
    /\ text = [g \in Goroutines |-> <<>>]
    /\ crashed = FALSE

(***************************************************************************)
(* EmailHandler.Handle, step by step.                                      *)
(***************************************************************************)
\* the records a caller may log as its n-th record
Records(n) ==
    [level : RecordLevels, msg : {Messages[n]},
     render : IF json THEN Renders ELSE Renders \ {"malformed"}]

\* a return from Handle that leaves the mutex as it is
ReturnHoldingLock(g, e) ==
    /\ calls' = [calls EXCEPT ![cur[g]].ret = e]
    /\ mu' = mu
    /\ pc' = [pc EXCEPT ![g] = "idle"]
    /\ cur' = [cur EXCEPT ![g] = 0]
    /\ text' = [text EXCEPT ![g] = <<>>]

\* a return from Handle with error e: the deferred h.mu.Unlock() runs
Return(g, e) ==
    /\ calls' = [calls EXCEPT ![cur[g]].ret = e]
    /\ mu' = Unlocked
    /\ pc' = [pc EXCEPT ![g] = "idle"]
    /\ cur' = [cur EXCEPT ![g] = 0]
    /\ text' = [text EXCEPT ![g] = <<>>]

\* the goroutines are interchangeable: the next call is made by the first
\* idle one
FirstIdle ==
    CHOOSE g \in Goroutines :
        /\ pc[g] = "idle"
        /\ \A k \in Goroutines : pc[k] = "idle" => GoroutineRank[g] <= GoroutineRank[k]

\* goroutine g calls h.Handle(ctx, r)
HandleCall(g, r) ==
    /\ ~crashed
    /\ pc[g] = "idle"
    /\ g = FirstIdle
    /\ nops < MaxOps
    /\ nops' = nops + 1
    /\ calls' = Append(calls, [g |-> g, rec |-> r, rendered |-> <<>>,
                               nbinds |-> 0, ret |-> "pending"])
    /\ cur' = [cur EXCEPT ![g] = Len(calls) + 1]
    /\ pc' = [pc EXCEPT ![g] = "lock"]
    /\ UNCHANGED <<config, baseHandler, buf, mu, out, sent, lockOrder, text,
                   crashed, aside>>

\* the body of LockAndRender once the mutex is taken. The base handler
\* builds the line apart and hands it to h.buf in one Write, whose error is
\* the one it returns: a failed render leaves h.buf as it was
Locked(g) ==
    /\ ~crashed
    /\ pc[g] = "lock"
    /\ lockOrder' = Append(lockOrder, cur[g])
    /\ LET r == calls[cur[g]].rec
       IN  IF r.render = "fail"
           THEN /\ Return(g, "renderErr")
                /\ UNCHANGED buf
           ELSE /\ mu' = g
                /\ buf' = buf \o RenderText(baseHandler, r)
                /\ calls' = [calls EXCEPT
                                ![cur[g]].rendered = RenderText(baseHandler, r),
                                ![cur[g]].nbinds = Len(rebinds)]
                /\ pc' = [pc EXCEPT ![g] = "write"]
                /\ UNCHANGED <<cur, text>>
    /\ UNCHANGED <<config, baseHandler, out, sent, nops, crashed, aside>>

\* a LockAndRender that does not wait for the mutex
LockAndRenderWithoutWaiting(g) == Locked(g)

\* h.mu.Lock(), taken when the mutex is free, and
\* h.baseHandler.Handle(ctx, r): the line is appended to h.buf, or the
\* base handler returns an error and Handle returns it
LockAndRender(g) ==
    /\ mu = Unlocked
    /\ Locked(g)

\* fmt.Fprintf(h.out, "MY: %s", text): the bytes of the one Write call
Fprintf(t) == <<"MY:", "sp">> \o t

\* a Write that goes on to the dispatch when the output write failed
WriteIgnoringError(g, ok) ==
    /\ ~crashed
    /\ pc[g] = "write"
    /\ buf' = <<>>
    /\ out' = Append(out, [call |-> cur[g], data |-> Fprintf(buf),
                           err |-> ~ok])
    /\ text' = [text EXCEPT ![g] = buf]
    /\ pc' = [pc EXCEPT ![g] = "dispatch"]
    /\ UNCHANGED <<calls, mu, cur>>
    /\ UNCHANGED <<config, baseHandler, sent, lockOrder, nops, crashed,
                   aside>>

\* a Write without h.buf.Reset()
WriteWithoutReset(g, ok) ==
    /\ ~crashed
    /\ pc[g] = "write"
    /\ buf' = buf
    /\ out' = Append(out, [call |-> cur[g], data |-> Fprintf(buf),
                           err |-> ~ok])
    /\ IF ok
       THEN /\ text' = [text EXCEPT ![g] = buf]
            /\ pc' = [pc EXCEPT ![g] = "dispatch"]
            /\ UNCHANGED <<calls, mu, cur>>
       ELSE Return(g, "writeErr")
    /\ UNCHANGED <<config, baseHandler, sent, lockOrder, nops, crashed,
                   aside>>

\* text := h.buf.String(); h.buf.Reset(); fmt.Fprintf(h.out, ...)
Write(g, ok) ==
    /\ ~crashed
    /\ pc[g] = "write"
    /\ buf' = <<>>
    /\ out' = Append(out, [call |-> cur[g], data |-> Fprintf(buf),
                           err |-> ~ok])
    /\ IF ok
       THEN /\ text' = [text EXCEPT ![g] = buf]
            /\ pc' = [pc EXCEPT ![g] = "dispatch"]
            /\ UNCHANGED <<calls, mu, cur>>
       ELSE Return(g, "writeErr")
    /\ UNCHANGED <<config, baseHandler, sent, lockOrder, nops, crashed,
                   aside>>

\* a subject that is the level name whatever GetSubject is
SubjectIgnoringGetSubject(r, t) == LevelString(r.level)

\* the subject of the letter (handler.go:139-143)
Subject(r, t) ==
    IF getSubject # "nil" THEN UserGetSubject(r, t) ELSE LevelString(r.level)

\* the body of the letter (handler.go:145-156): [err, out]
Body(r, t) ==
    IF getBody # "nil" THEN [err |-> FALSE, out |-> UserGetBody(r, t)]
    ELSE IF json THEN prettifyJSON(t)
    ELSE [err |-> FALSE, out |-> t]

\* a gate with the comparison turned around
QualifiesInverted(level) == level <= emailLevel

\* the dispatch gate (handler.go:137)
Qualifies(level) == level >= emailLevel

\* the level check, the derivation of subject and body, and the call
\* h.sendEmail(ctx, h.fromAddr, h.toAddrs, subject, body): a nil function
\* value panics; the default mailer checks the addresses and dials; a
\* custom function runs
Dispatch(g, recovered) ==
    /\ ~crashed
    /\ pc[g] = "dispatch"
    /\ LET r == calls[cur[g]].rec
           b == Body(r, text[g])
           s == [call |-> cur[g], fn |-> sendEmail, from |-> fromAddr,
                 to |-> toAddrs, subject |-> Subject(r, text[g]),
                 body |-> b.out, dialed |-> FALSE, result |-> "pending"]
           m == SendPlaintextMessage(fromAddr, toAddrs)
       IN  CASE ~Qualifies(r.level) ->
                  /\ Return(g, "nil")
                  /\ UNCHANGED <<sent, crashed>>
             [] Qualifies(r.level) /\ b.err ->
                  /\ Return(g, "jsonErr")
                  /\ UNCHANGED <<sent, crashed>>
             [] Qualifies(r.level) /\ ~b.err /\ sendEmail = "nil" ->
                  /\ Return(g, "panic")
                  /\ crashed' = ~recovered
                  /\ UNCHANGED sent
             [] Qualifies(r.level) /\ ~b.err
                    /\ sendEmail = "sendEmailDefault" /\ m # "dial" ->
                  /\ sent' = Append(sent, [s EXCEPT !.result = m])
                  /\ Return(g, m)
                  /\ UNCHANGED crashed
             [] OTHER ->
                  /\ sent' = Append(sent,
                        [s EXCEPT !.dialed = (sendEmail = "sendEmailDefault")])
                  /\ pc' = [pc EXCEPT ![g] = "sending"]
                  /\ UNCHANGED <<calls, mu, cur, text, crashed>>
    /\ UNCHANGED <<config, baseHandler, buf, out, lockOrder, nops, aside>>

\* the index in sent of the send in progress for call c
SendOf(c) == CHOOSE i \in DOMAIN sent : sent[i].call = c /\ sent[i].result = "pending"

\* a SendReturn that sends again when the send function failed
SendReturnRetrying(g, e) ==
    /\ ~crashed
    /\ pc[g] = "sending"
    /\ e \in IF sendEmail = "sendEmailDefault" THEN DialResults
             ELSE CustomResults
    /\ sent' = [sent EXCEPT ![SendOf(cur[g])].result = e]
    /\ IF e = "nil" THEN Return(g, e)
       ELSE /\ pc' = [pc EXCEPT ![g] = "dispatch"]
            /\ UNCHANGED <<calls, mu, cur, text>>
    /\ UNCHANGED <<config, baseHandler, buf, out, lockOrder, nops, crashed,
                   aside>>

\* a SendReturn that drops the error of the send function
SendReturnSwallowing(g, e) ==
    /\ ~crashed
    /\ pc[g] = "sending"
    /\ e \in IF sendEmail = "sendEmailDefault" THEN DialResults
             ELSE CustomResults
    /\ sent' = [sent EXCEPT ![SendOf(cur[g])].result = e]
    /\ Return(g, "nil")
    /\ UNCHANGED <<config, baseHandler, buf, out, lockOrder, nops, crashed,
                   aside>>

\* the send function returns e and Handle returns it
SendReturn(g, e) ==
    /\ ~crashed
    /\ pc[g] = "sending"
    /\ e \in IF sendEmail = "sendEmailDefault" THEN DialResults
             ELSE CustomResults
    /\ sent' = [sent EXCEPT ![SendOf(cur[g])].result = e]
    /\ Return(g, e)
    /\ UNCHANGED <<config, baseHandler, buf, out, lockOrder, nops, crashed,
                   aside>>

(***************************************************************************)
(* EmailHandler.WithAttrs and EmailHandler.WithGroup: h.mu.Lock(), taken   *)
(* when the mutex is free; then the assignment to h.baseHandler, the       *)
(* deferred h.mu.Unlock() and return h.                                    *)
(***************************************************************************)
\* the handler the calls are made on
Receiver == "h"

\* the call and the lock of WithAttrs / WithGroup once the mutex is taken
BindLocked(g, b) ==
    /\ ~crashed
    /\ pc[g] = "idle"
    /\ g = FirstIdle
    /\ nops < MaxOps
    /\ nops' = nops + 1
    /\ mu' = g
    /\ pc' = [pc EXCEPT ![g] = "rebind"]
    /\ arg' = [arg EXCEPT ![g] = b]
    /\ UNCHANGED <<config, baseHandler, buf, out, sent, calls, lockOrder,
                   cur, text, crashed, rebinds, enabled>>

\* a WithAttrs that does not wait for the mutex
WithAttrsWithoutWaiting(g, a) == BindLocked(g, [kind |-> "attr", name |-> a])

WithAttrs(g, a) ==
    /\ mu = Unlocked
    /\ BindLocked(g, [kind |-> "attr", name |-> a])

WithGroup(g, name) ==
    /\ mu = Unlocked
    /\ BindLocked(g, [kind |-> "group", name |-> name])

\* the base handler h.baseHandler.WithAttrs(attrs) / .WithGroup(name) yields
Rebound(bh, b) ==
    IF b.kind = "attr" THEN BaseWithAttrs(bh, b.name)
    ELSE BaseWithGroup(bh, b.name)

\* a Rebind that binds a copy of the handler, returns the copy and leaves
\* the receiver as it was
RebindOfCopy(g) ==
    /\ ~crashed
    /\ pc[g] = "rebind"
    /\ rebinds' = Append(rebinds, [kind |-> arg[g].kind, name |-> arg[g].name,
                                   ret |-> "copy"])
    /\ mu' = Unlocked
    /\ pc' = [pc EXCEPT ![g] = "idle"]
    /\ arg' = [arg EXCEPT ![g] = NoBinding]
    /\ UNCHANGED <<config, baseHandler, buf, out, sent, calls, lockOrder,
                   nops, cur, text, crashed, enabled>>

\* h.baseHandler = h.baseHandler.WithAttrs(attrs) (or .WithGroup(name));
\* return h; the deferred h.mu.Unlock() runs
Rebind(g) ==
    /\ ~crashed
    /\ pc[g] = "rebind"
    /\ baseHandler' = Rebound(baseHandler, arg[g])
    /\ rebinds' = Append(rebinds, [kind |-> arg[g].kind, name |-> arg[g].name,
                                   ret |-> Receiver])
    /\ mu' = Unlocked
    /\ pc' = [pc EXCEPT ![g] = "idle"]
    /\ arg' = [arg EXCEPT ![g] = NoBinding]
    /\ UNCHANGED <<config, buf, out, sent, calls, lockOrder, nops, cur, text,
                   crashed, enabled>>

(***************************************************************************)
(* EmailHandler.Enabled: return h.baseHandler.Enabled(ctx, level), with no *)
(* lock taken.                                                             *)
(***************************************************************************)
\* what the unsynchronised read of h.baseHandler may yield: the field as it
\* is, or the value a WithAttrs / WithGroup holding the mutex is storing
BaseHandlerRead ==
    {baseHandler}
        \cup {Rebound(baseHandler, arg[k]) :
                 k \in {j \in Goroutines : pc[j] = "rebind"}}

\* an Enabled that asks the email threshold
EnabledAtEmailLevel(g, level) ==
    /\ ~crashed
    /\ pc[g] = "idle"
    /\ g = FirstIdle
    /\ nops < MaxOps
    /\ nops' = nops + 1
    /\ enabled' = Append(enabled,
            [g |-> g, level |-> level, ret |-> (level >= emailLevel),
             held |-> (mu = g),
             rebinding |-> (\E k \in Goroutines : pc[k] = "rebind")])
    /\ UNCHANGED <<config, baseHandler, buf, mu, out, sent, calls, lockOrder,
                   pc, cur, text, crashed, arg, rebinds>>

\* goroutine g calls h.Enabled(ctx, level): one read of h.baseHandler and
\* the answer of the base handler read
Enabled(g, level) ==
    /\ ~crashed
    /\ pc[g] = "idle"
    /\ g = FirstIdle
    /\ nops < MaxOps
    /\ nops' = nops + 1
    /\ \E bh \in BaseHandlerRead :
          enabled' = Append(enabled,
            [g |-> g, level |-> level, ret |-> BaseEnabled(bh, level),
             held |-> (mu = g),
             rebinding |-> (\E k \in Goroutines : pc[k] = "rebind")])
    /\ UNCHANGED <<config, baseHandler, buf, mu, out, sent, calls, lockOrder,
                   pc, cur, text, crashed, arg, rebinds>>

Next ==
    \/ \E g \in Goroutines : \E r \in Records(Len(calls) + 1) : HandleCall(g, r)
    \/ \E g \in Goroutines : LockAndRender(g)
    \/ \E g \in Goroutines : \E ok \in BOOLEAN : Write(g, ok)
    \/ \E g \in Goroutines : \E recovered \in BOOLEAN : Dispatch(g, recovered)
    \/ \E g \in Goroutines : \E e \in DialResults \cup CustomResults :
          SendReturn(g, e)
    \/ \E g \in Goroutines : \E a \in AttrNames : WithAttrs(g, a)
    \/ \E g \in Goroutines : \E name \in GroupNames : WithGroup(g, name)
    \/ \E g \in Goroutines : Rebind(g)
    \/ \E g \in Goroutines : \E level \in EnabledLevels : Enabled(g, level)

Spec == Init /\ [][Next]_vars

\* a step of a call that is under way, the dispatch apart: taking the
\* free mutex, or a step of the goroutine holding it
Progress ==
    \E g \in Goroutines :
        \/ LockAndRender(g)
        \/ \E ok \in BOOLEAN : Write(g, ok)
        \/ \E e \in DialResults \cup CustomResults : SendReturn(g, e)
        \/ Rebind(g)

\* the scheduler does not leave a call that can take a step waiting for
\* ever: a free mutex is handed to a goroutine waiting for it, and the
\* send function returns. Dispatch(g, _) is enabled exactly when g is at
\* "dispatch" in a running program and every step of it leaves "dispatch",
\* so its weak fairness is that g is not at "dispatch" for ever
Fairness ==
    /\ WF_vars(Progress)
    /\ \A g \in Goroutines : []<>(pc[g] # "dispatch" \/ crashed)

FairSpec == Spec /\ Fairness

(***************************************************************************)
(* What the properties below speak of.                                     *)
(***************************************************************************)
Returned(c) == calls[c].ret # "pending"
EndsWith(s, t) ==
    Len(s) >= Len(t) /\ SubSeq(s, Len(s) - Len(t) + 1, Len(s)) = t
\* how many writes the output stream received for call c: none, at most
\* one, some
NoWrite(c) == \A i \in DOMAIN out : out[i].call # c
AtMostOneWrite(c) ==
    \A i, j \in DOMAIN out : out[i].call = c /\ out[j].call = c => i = j
OneWrite(c) == ~NoWrite(c) /\ AtMostOneWrite(c)
\* how many times the send function was called in call c
NoSend(c) == \A i \in DOMAIN sent : sent[i].call # c
AtMostOneSend(c) ==
    \A i, j \in DOMAIN sent : sent[i].call = c /\ sent[j].call = c => i = j
OneSend(c) == ~NoSend(c) /\ AtMostOneSend(c)
\* the record of call c is at or above the threshold given at construction
QualifyingCall(c) == calls[c].rec.level >= emailOpts.Level
RenderOK(c) == calls[c].rec.render # "fail"
WrittenOK(c) == \E i \in DOMAIN out : out[i].call = c /\ ~out[i].err
WriteFailed(c) == \E i \in DOMAIN out : out[i].call = c /\ out[i].err
\* the default JSON body of call c cannot be derived
BodyFails(c) ==
    emailOpts.JSON /\ emailOpts.GetBody = "nil"
        /\ calls[c].rec.render = "malformed"

(***************************************************************************)
(* C1: a record below the email threshold is never handed to the send      *)
(* function, and once Handle has returned after a successful render the    *)
(* output stream has received exactly one write for it.                    *)
(***************************************************************************)
C1_BelowThresholdNoSendOneWrite ==
    \A c \in DOMAIN calls :
        ~QualifyingCall(c) =>
            /\ NoSend(c)
            /\ AtMostOneWrite(c)
            /\ Returned(c) /\ RenderOK(c) => OneWrite(c)
            /\ Returned(c) /\ ~RenderOK(c) => NoWrite(c)

C1_Witness ==
    \E c \in DOMAIN calls :
        /\ ~QualifyingCall(c) /\ RenderOK(c) /\ calls[c].ret = "nil"
        /\ OneWrite(c) /\ WrittenOK(c)
        /\ NoSend(c)

(***************************************************************************)
(* C2 as stated: every Handle call on a record at or above the threshold   *)
(* that has returned made exactly one call of the send function.           *)
(***************************************************************************)
C2_ExactlyOneSendPerQualifyingCall ==
    \A c \in DOMAIN calls :
        QualifyingCall(c) /\ Returned(c) => OneSend(c)

(***************************************************************************)
(* C2 amended: a Handle call on a qualifying record calls the send         *)
(* function at most once, and a returned call has called it exactly once   *)
(* iff the render, the output write and the derivation of the body         *)
(* succeeded and NewHandler had returned no error.                         *)
(***************************************************************************)
C2_AtMostOneSendAndOneWhenReached ==
    \A c \in DOMAIN calls :
        QualifyingCall(c) =>
            /\ AtMostOneSend(c)
            /\ Returned(c) =>
                 (OneSend(c)
                    <=> /\ RenderOK(c) /\ WrittenOK(c) /\ ~BodyFails(c)
                        /\ newErr = "nil")

C2_Witness ==
    \E c \in DOMAIN calls :
        /\ QualifyingCall(c) /\ Returned(c)
        /\ OneSend(c)
        /\ \E i \in DOMAIN sent : sent[i].call = c /\ sent[i].result = "sendErr"

(***************************************************************************)
(* C3: the send function is called only for a record that was rendered     *)
(* and written to the output stream without error earlier in the same      *)
(* Handle call; when the render or the output write fails, Handle returns  *)
(* that error and the send function is not called.                         *)
(***************************************************************************)
C3_RenderWriteThenSend ==
    /\ \A i \in DOMAIN sent :
          /\ calls[sent[i].call].rendered # <<>>
          /\ WrittenOK(sent[i].call)
    /\ \A c \in DOMAIN calls :
          /\ ~RenderOK(c) /\ Returned(c) =>
                calls[c].ret = "renderErr" /\ NoSend(c)
          /\ WriteFailed(c) =>
                calls[c].ret = "writeErr" /\ NoSend(c)

C3_Witness ==
    \E c, d \in DOMAIN calls :
        /\ QualifyingCall(c) /\ WriteFailed(c) /\ calls[c].ret = "writeErr"
        /\ QualifyingCall(d) /\ ~NoSend(d) /\ WrittenOK(d)

(***************************************************************************)
(* C4 as stated: the bytes of every write to the output stream are exactly *)
(* the text the renderer produced for the record.                          *)
(***************************************************************************)
C4_OutputIsRenderedTextVerbatim ==
    \A i \in DOMAIN out : out[i].data = calls[out[i].call].rendered

(***************************************************************************)
(* C5: when the send function returns an error, Handle returns that very   *)
(* error, and the output stream still holds the write of the record.       *)
(***************************************************************************)
C5_SendErrorReturnedWriteKept ==
    \A i \in DOMAIN sent :
        sent[i].result \notin {"pending", "nil"} =>
            /\ calls[sent[i].call].ret = sent[i].result
            /\ \E j \in DOMAIN out :
                  /\ out[j].call = sent[i].call
                  /\ ~out[j].err
                  /\ EndsWith(out[j].data, calls[sent[i].call].rendered)

C5_Witness ==
    \E i \in DOMAIN sent :
        /\ sent[i].result \in {"sendErr", "dialErr"}
        /\ calls[sent[i].call].ret = sent[i].result
        /\ WrittenOK(sent[i].call)

(***************************************************************************)
(* C6: the critical sections of Handle exclude one another; every output   *)
(* write is the rendered text of its own record behind the two tokens of   *)
(* the format string, and nothing else; the writes appear on the stream    *)
(* in the order in which the calls took the lock, which for the calls of   *)
(* one goroutine is the order of the calls.                                *)
(***************************************************************************)
InCriticalSection(g) ==
    pc[g] \in {"write", "dispatch", "sending"}
\* the place of call c in the order of lock acquisitions
LockRank(c) == CHOOSE k \in DOMAIN lockOrder : lockOrder[k] = c

C6_ExclusiveOrderedWrites ==
    /\ \A g, k \in Goroutines :
          InCriticalSection(g) /\ InCriticalSection(k) => g = k
    /\ \A i \in DOMAIN out :
          /\ EndsWith(out[i].data, calls[out[i].call].rendered)
          /\ calls[out[i].call].rendered # <<>>
          /\ Len(out[i].data) <= Len(calls[out[i].call].rendered) + 2
    /\ \A i, j \in DOMAIN out :
          i < j =>
            /\ LockRank(out[i].call) < LockRank(out[j].call)
            /\ calls[out[i].call].g = calls[out[j].call].g =>
                  out[i].call < out[j].call

\* two calls wrote, and the call made second took the lock first
C6_Witness ==
    /\ Len(out) = 2
    /\ out[1].call = 2 /\ out[2].call = 1
    /\ lockOrder = <<2, 1>>

(***************************************************************************)
(* C7 as stated: the lock is not held during the email transport, so a     *)
(* goroutine inside the send function does not hold h.mu and a goroutine   *)
(* waiting in Handle can take it.                                          *)
(***************************************************************************)
C7_LockNotHeldDuringSend ==
    \A g \in Goroutines :
        pc[g] = "sending" =>
            /\ mu # g
            /\ \A k \in Goroutines : pc[k] = "lock" => ENABLED LockAndRender(k)

(***************************************************************************)
(* C8 as stated: a handler returned together with a construction error     *)
(* still logs: Handle on a record below the threshold writes and returns   *)
(* nil, and Handle on a record at or above it writes and returns a non-nil *)
(* error, without a panic.                                                 *)
(***************************************************************************)
C8_UsableAfterConstructionError ==
    newErr # "nil" =>
        /\ ~crashed
        /\ \A c \in DOMAIN calls :
              Returned(c) /\ WrittenOK(c) =>
                 IF QualifyingCall(c)
                 THEN calls[c].ret \notin {"nil", "panic"}
                 ELSE calls[c].ret = "nil"

(***************************************************************************)
(* The layout json.Indent gives with a four-space indent, said token by    *)
(* token: the white space in front of every token of b is what its place   *)
(* in the nesting calls for.                                               *)
(***************************************************************************)
StripSpace(t) == SelectSeq(t, LAMBDA x : x \notin Space)
\* the white space due between token prev and token tok at nesting depth
ExpectedGap(prev, tok, depth) ==
    IF prev = "" THEN <<>>
    ELSE IF prev = "{" /\ tok = "}" THEN <<>>
    ELSE IF prev = "{" \/ prev = ","
    THEN <<"nl">> \o Repeat("sp", 4 * depth)
    ELSE IF prev = ":" THEN <<"sp">>
    ELSE IF tok = "}"
    THEN <<"nl">> \o Repeat("sp", 4 * (depth - 1))
    ELSE <<>>
RECURSIVE LaidOutFrom(_, _, _, _, _)
\* the tokens b[i..] are laid out, after token prev at nesting depth, with
\* the white space gap read since prev
LaidOutFrom(b, i, prev, depth, gap) ==
    IF i > Len(b) THEN TRUE
    ELSE IF b[i] \in Space
    THEN LaidOutFrom(b, i + 1, prev, depth, Append(gap, b[i]))
    ELSE /\ gap = ExpectedGap(prev, b[i], depth)
         /\ LaidOutFrom(b, i + 1, b[i],
                        CASE b[i] = "{" -> depth + 1
                          [] b[i] = "}" -> depth - 1
                          [] OTHER -> depth,
                        <<>>)
IsIndented(b) == LaidOutFrom(b, 1, "", 0, <<>>)
RECURSIVE TrailingSpace(_)
TrailingSpace(b) ==
    IF b = <<>> \/ b[Len(b)] \notin Space THEN <<>>
    ELSE Append(TrailingSpace(SubSeq(b, 1, Len(b) - 1)), b[Len(b)])
\* b is the indented re-serialization of the JSON text t
IsPrettyOf(b, t) ==
    /\ IsIndented(b)
    /\ StripSpace(b) = StripSpace(t)
    /\ TrailingSpace(b) = TrailingSpace(t)

(***************************************************************************)
(* C9: with the default body in JSON format, a qualifying record whose     *)
(* rendered text is malformed JSON makes Handle return the serialization   *)
(* error and the send function is not called; and every body handed to the *)
(* send function is the four-space-indented form of the rendered text.     *)
(***************************************************************************)
C9_PrettyBodyOrError ==
    emailOpts.JSON /\ emailOpts.GetBody = "nil" =>
        \A c \in DOMAIN calls :
            QualifyingCall(c) /\ WrittenOK(c) =>
                /\ calls[c].rec.render = "malformed" =>
                      /\ NoSend(c)
                      /\ Returned(c) => calls[c].ret = "jsonErr"
                /\ \A i \in DOMAIN sent :
                      sent[i].call = c =>
                         /\ calls[c].rec.render = "ok"
                         /\ IsPrettyOf(sent[i].body, calls[c].rendered)
                         /\ sent[i].body # calls[c].rendered

C9_Witness ==
    /\ emailOpts.JSON /\ emailOpts.GetBody = "nil"
    /\ \E c, d \in DOMAIN calls :
          /\ QualifyingCall(c) /\ calls[c].rec.render = "malformed"
          /\ calls[c].ret = "jsonErr"
          /\ QualifyingCall(d) /\ ~NoSend(d)

(***************************************************************************)
(* C10: the subject handed to the send function is the result of           *)
(* GetSubject when one is configured and the name of the record's level    *)
(* otherwise; the body is the result of GetBody when one is configured,    *)
(* otherwise the rendered text in text format and its indented form in     *)
(* JSON format; from and to are the addresses given at construction.       *)
(***************************************************************************)
LevelName(l) ==
    CASE l = LevelWarn + 2 -> "WARN+2"
      [] l = LevelError -> "ERROR"
      [] l = LevelError + 2 -> "ERROR+2"

C10_SubjectBodySelection ==
    \A i \in DOMAIN sent :
        LET r == calls[sent[i].call].rec
            t == calls[sent[i].call].rendered
        IN  /\ sent[i].subject =
                  IF emailOpts.GetSubject = "custom" THEN UserGetSubject(r, t)
                  ELSE LevelName(r.level)
            /\ IF emailOpts.GetBody = "custom"
               THEN sent[i].body = UserGetBody(r, t)
               ELSE IF emailOpts.JSON
               THEN IsPrettyOf(sent[i].body, t)
               ELSE sent[i].body = t
            /\ sent[i].from = emailOpts.FromAddr
            /\ sent[i].to = emailOpts.ToAddrs

C10_Witness ==
    \E i \in DOMAIN sent :
        /\ emailOpts.GetSubject = "custom" /\ emailOpts.GetBody = "nil"
        /\ sent[i].subject = calls[sent[i].call].rec.msg
        /\ sent[i].body = calls[sent[i].call].rendered

(***************************************************************************)
(* C11 as stated: with a custom send function given at construction,       *)
(* Handle derives nothing itself: every Handle call on a qualifying record *)
(* that was written to the output stream and has returned has called the   *)
(* function, and what the function was handed as text is the rendered text *)
(* of the record as it is.                                                 *)
(***************************************************************************)
C11_CustomSendGetsRecordAndText ==
    emailOpts.SendEmail = "custom" =>
        /\ \A c \in DOMAIN calls :
              QualifyingCall(c) /\ WrittenOK(c) /\ Returned(c) => OneSend(c)
        /\ \A i \in DOMAIN sent :
              sent[i].body = calls[sent[i].call].rendered

(***************************************************************************)
(* C12: a step that changes the bound base handler adds one binding to it  *)
(* and changes nothing else of the handler: not the email threshold, the   *)
(* addresses, the subject and body functions, the send function, the       *)
(* format, the mailer, the render buffer or the output stream; and it is   *)
(* taken by the goroutine holding the mutex while no Handle call is        *)
(* between its render and its return.                                      *)
(***************************************************************************)
C12_RebindChangesOnlyBinding ==
    [][baseHandler' # baseHandler =>
          /\ config' = config
          /\ buf' = buf /\ out' = out /\ sent' = sent
          /\ baseHandler'.json = baseHandler.json
          /\ baseHandler'.level = baseHandler.level
          /\ Len(baseHandler'.binds) = Len(baseHandler.binds) + 1
          /\ SubSeq(baseHandler'.binds, 1, Len(baseHandler.binds))
                = baseHandler.binds
          /\ \A g \in Goroutines : ~InCriticalSection(g)
          /\ \E g \in Goroutines : mu = g /\ pc[g] = "rebind"
      ]_vars

\* a binding was made while another goroutine was in Handle, waiting
C12_Witness ==
    /\ Len(rebinds) = 1 /\ Len(baseHandler.binds) = 1
    /\ emailLevel = emailOpts.Level
    /\ \E g \in Goroutines : pc[g] = "lock"

(***************************************************************************)
(* C13: every Enabled call returns TRUE iff the level asked is at or above *)
(* the minimum level of the base handler options, whatever the email       *)
(* threshold is and whatever Handle calls were made.                       *)
(***************************************************************************)
C13_EnabledIsBaseEnabled ==
    \A i \in DOMAIN enabled :
        enabled[i].ret <=> enabled[i].level >= opts.Level

\* Enabled said yes to a level below the email threshold, on a handler one
\* of whose Handle calls failed to deliver
C13_Witness ==
    /\ \E i \in DOMAIN enabled :
          enabled[i].ret /\ enabled[i].level < emailOpts.Level
    /\ \E c \in DOMAIN calls : calls[c].ret \in {"sendErr", "dialErr"}

(***************************************************************************)
(* C14: the mutex is held exactly while a goroutine is between the Lock    *)
(* and the return of Handle, WithAttrs or WithGroup, so it is free         *)
(* whenever every call has returned; and a goroutine waiting for the lock  *)
(* in Handle eventually returns from Handle (or the program has ended in a *)
(* panic).                                                                 *)
(***************************************************************************)
C14_LockReleasedOnEveryReturn ==
    /\ [](\A g \in Goroutines :
             mu = g <=> pc[g] \in {"write", "dispatch", "sending", "rebind"})
    /\ [](mu = Unlocked \/ mu \in Goroutines)
    /\ \A g \in Goroutines : pc[g] = "lock" ~> (pc[g] = "idle" \/ crashed)

\* the call that took the lock first returned an error of the send
\* function, and the other call took the lock after it and returned
C14_Witness ==
    /\ Len(lockOrder) = 2 /\ Len(calls) = 2
    /\ calls[lockOrder[1]].ret = "sendErr"
    /\ calls[lockOrder[2]].ret = "nil"
    /\ calls[1].g # calls[2].g
    /\ mu = Unlocked

(***************************************************************************)
(* C15: whenever no Handle call is between its Lock and its return, the    *)
(* render buffer is empty, also after a Handle call that returned a render *)
(* error; what a call writes to the output stream behind the two tokens of *)
(* the format string is the rendered text of its own record, and the       *)
(* default body is made of the tokens of that text and no others.          *)
(***************************************************************************)
C15_BufferEmptyBetweenCalls ==
    /\ (\A g \in Goroutines : ~InCriticalSection(g)) => buf = <<>>
    /\ \A i \in DOMAIN out :
          SubSeq(out[i].data, 3, Len(out[i].data))
             = calls[out[i].call].rendered
    /\ \A i \in DOMAIN sent :
          emailOpts.GetBody = "nil" =>
             StripSpace(sent[i].body)
                = StripSpace(calls[sent[i].call].rendered)

\* a call returned a render error, and a call that took the lock after it
\* wrote its line
C15_Witness ==
    /\ Len(lockOrder) = 2
    /\ calls[lockOrder[1]].ret = "renderErr"
    /\ calls[lockOrder[2]].ret = "nil" /\ WrittenOK(lockOrder[2])
    /\ mu = Unlocked /\ buf = <<>>

(***************************************************************************)
(* C16 as stated: every access to h.baseHandler and h.buf is made by a     *)
(* goroutine holding the mutex: Enabled reads h.baseHandler with the mutex *)
(* held and never while a WithAttrs or WithGroup is about to assign it,    *)
(* and a goroutine about to write h.buf or h.baseHandler holds the mutex.  *)
(***************************************************************************)
C16_SharedStateOnlyUnderMutex ==
    /\ \A i \in DOMAIN enabled :
          enabled[i].held /\ ~enabled[i].rebinding
    /\ \A g \in Goroutines : pc[g] \in {"write", "rebind"} => mu = g

(***************************************************************************)
(* C17: WithAttrs and WithGroup return the receiver; the bindings of the   *)
(* calls that returned are, in order, the bindings of the one handler; and *)
(* every line rendered carries one value for each attribute bound by a     *)
(* WithAttrs call that had returned when its Handle call took the lock.    *)
(***************************************************************************)
C17_RebindsReceiverInPlace ==
    /\ \A i \in DOMAIN rebinds : rebinds[i].ret = Receiver
    /\ Len(baseHandler.binds) = Len(rebinds)
    /\ \A i \in DOMAIN rebinds :
          /\ baseHandler.binds[i].kind = rebinds[i].kind
          /\ baseHandler.binds[i].name = rebinds[i].name
    /\ \A c \in DOMAIN calls :
          calls[c].rendered # <<>> =>
             Len(SelectSeq(calls[c].rendered, LAMBDA x : x = "v"))
                = Cardinality({i \in 1..calls[c].nbinds :
                                  rebinds[i].kind = "attr"})

\* a record handled after WithAttrs returned carries the attribute
C17_Witness ==
    /\ \E i \in DOMAIN rebinds : rebinds[i].kind = "attr"
    /\ \E c \in DOMAIN calls :
          /\ calls[c].nbinds = 1 /\ calls[c].ret = "nil"
          /\ \E k \in DOMAIN calls[c].rendered : calls[c].rendered[k] = "v"
          /\ \E j \in DOMAIN out :
                out[j].call = c /\ \E k \in DOMAIN out[j].data : out[j].data[k] = "v"

====
